---- MODULE Spec2Model ----
(***************************************************************************)
(* qlsbridge: the ranking aggregation engine getQLStatsPlayerRankings      *)
(* (qlsbridge.go), the ranking handlers that call it and the deadline      *)
(* wrapper of wrapHandlerFunc / timeoutHandler (handlers.go).              *)
(*                                                                         *)
(* One request is served at a time.  The request goroutine runs the        *)
(* wrapped handler, which calls the engine; the engine starts one          *)
(* goroutine ("unit of work") per address.  Every statement that touches   *)
(* shared state is one step, so every interleaving the Go scheduler can    *)
(* produce is a behaviour.  successCount++ is not synchronised in the      *)
(* source: it is a load followed by a store.                               *)
(***************************************************************************)
EXTENDS Integers, Sequences, FiniteSets, TLC

\* ------------------------------------------------------------------ bounds
MaxServers == 2      \* longest address sequence given to the engine
MaxPlayers == 2      \* length of a non-empty player list in an upstream payload
MaxRuns == 2         \* requests served one after the other

\* --------------------------------------------------------------- constants
Hosts == {"h1", "h2", "h3"}
\* An address "host:port".
Addrs == {[host |-> h, port |-> "27960"] : h \in Hosts}
NoAddr == [host |-> "", port |-> ""]
Methods == {"GET", "POST"}
Paths == {"/rankings", "/allrankings", "/other"}
rankingsEndpoint == "/rankings"
allRankingsEndpoint == "/allrankings"

\* What the upstream service does for one fetch: answers with a well-formed
\* document of n players (none, or MaxPlayers of them), refuses the
\* connection, answers with garbage, or never answers (http.Get has no
\* timeout of its own).
Outcomes ==
    {[kind |-> "ok", n |-> k] : k \in {0, MaxPlayers}}
        \cup {[kind |-> k, n |-> 0] : k \in {"connerr", "decerr", "hang"}}

\* What a fetch does in the behaviours that follow a handler from its
\* start: a well-formed document of one player, or a refused connection.
FrontOutcomes == {[kind |-> "ok", n |-> 1], [kind |-> "connerr", n |-> 0]}

RECURSIVE SeqsUpTo(_, _)
SeqsUpTo(S, n) ==
    IF n = 0 THEN {<<>>}
    ELSE LET shorter == SeqsUpTo(S, n - 1)
         IN  shorter \cup {Append(s, x) : s \in {t \in shorter : Len(t) = n - 1}, x \in S}

\* The address sequences a request can ask for: one address listed twice,
\* or two addresses in turn (from the third element on an address comes
\* back).  The hosts are interchangeable, so the first address is the first
\* host's.
Requested ==
    {s \in SeqsUpTo(Addrs, MaxServers) :
        \/ s = <<[host |-> "h1", port |-> "27960"], [host |-> "h1", port |-> "27960"]>>
        \/ \A k \in 1..Len(s) : s[k].host = (IF k % 2 = 1 THEN "h1" ELSE "h2")}

VARIABLES
    front,            \* the part of the handler before the engine call that is
                      \* followed: "allRankingsHandler", "rankingsHandler", or
                      \* "none" when servers is what that part has computed
    directory,        \* what the directory service answers to getQLStatsServers
    query,            \* the "servers" value of the request's query string
    servers,          \* the address sequence the handler gives to the engine
    upstream,         \* upstream[u]: the outcome of the fetch of unit u
    run,              \* number of requests received so far
    handler,          \* number of http.TimeoutHandler layers around the handler
    hpc,              \* position of the request goroutine
    i,                \* number of loop iterations of `for _, s := range servers` done
    upc,              \* upc[u]: position of unit u
    idx,              \* idx[u]: index in qp.Players of unit u's loop
    tmp,              \* tmp[u]: the value unit u loaded for successCount++
    rankingResponse,  \* the engine's local, shared with its units
    successCount,     \* the engine's local, shared with its units
    wg,               \* sync.WaitGroup counter
    mut,              \* sync.Mutex: 0 when free, else the unit holding it
    players,          \* the handler's local: the value the engine returned
    timedOut,         \* the timeout writer's flag
    twBuf,            \* what the handler wrote to the timeout writer
    response,         \* what the client received for the current request
    pendingAtDeadline,\* history: some unit was not finished when the deadline fired
    results           \* history: the counts of every engine call that returned

\* What a request finds: the endpoint, the directory and its own query.
input == <<front, directory, query>>

vars == <<input, servers, upstream, run, handler, hpc, i, upc, idx, tmp,
          rankingResponse, successCount, wg, mut, players, timedOut, twBuf,
          response, pendingAtDeadline, results>>

Units == 1..Len(servers)

\* The method and path the endpoint was registered with (registerHandlers).
method == "GET"
path == IF front = "allRankingsHandler" THEN allRankingsEndpoint ELSE rankingsEndpoint

\* --------------------------------------------------------------- Go values
\* A slice is nil or not; encoding/json writes null for the one and [] for
\* the other.
NilSlice == [isNil |-> TRUE, elems |-> <<>>]
\* Variant: the slice is left nil.
MakeSliceNil == NilSlice
\* make([]rankedPlayer, 0)
MakeSlice == [isNil |-> FALSE, elems |-> <<>>]

\* Variant: the new element is put in front.
prepend(s, p) == [isNil |-> FALSE, elems |-> <<p>> \o s.elems]

\* append(s, p)
append(s, p) == [isNil |-> FALSE, elems |-> Append(s.elems, p)]

\* len(s)
len(s) == Len(s.elems)

\* strings.Split(addr, ":")[0]
SplitHost(addr) == addr.host

\* var rankingResponse apiRankingResponse
ZeroResponse ==
    [RankedServerCount |-> 0, RankedPlayerCount |-> 0, RankedPlayers |-> NilSlice]

NoResult == [none |-> TRUE]

\* The decoded qp.Players of unit u: the Server and IP fields are not in the
\* upstream document.
Players(u) ==
    [j \in 1..upstream[u].n |-> [SteamID |-> 10 * u + j, Server |-> NoAddr, IP |-> ""]]

\* json.NewEncoder(w).Encode(players)
Encode(p) ==
    [kind |-> "result",
     rankedServerCount |-> p.RankedServerCount,
     rankedPlayerCount |-> p.RankedPlayerCount,
     rankedPlayersNull |-> p.RankedPlayers.isNil,
     rankedPlayers |-> p.RankedPlayers.elems]

\* writeResponseError's body
ErrorBody(code) == [kind |-> "error", code |-> code]

\* The body http.TimeoutHandler answers with.
TimeoutBody == [kind |-> "error", code |-> 503]

NoBody == [kind |-> "none"]

\* ------------------------------------------------------ the server directory
\* The population counters of a directory entry: nobody, players only,
\* spectators only, bots only, all three.
Populations ==
    {c \in [Pc : 0..1, Sc : 0..1, Bc : 0..1] : c.Pc + c.Sc + c.Bc \in {0, 1, 3}}

\* The address of the k-th entry of the directory.
HostOrder == <<"h1", "h2", "h3">>
DirAddr(k) == [host |-> HostOrder[k], port |-> "27960"]

\* The listings the directory service can answer with: entry k describes
\* the server DirAddr(k).
Listings ==
    {[k \in 1..Len(c) |-> [Server |-> DirAddr(k), Pc |-> c[k].Pc, Sc |-> c[k].Sc,
                            Bc |-> c[k].Bc, IP |-> ""]] :
        c \in SeqsUpTo(Populations, MaxServers)}

\* getQLStatsServers answers with a listing, fails (connection or decode
\* error), or never answers.
Directories ==
    {[kind |-> "ok", entries |-> l] : l \in Listings}
        \cup {[kind |-> k, entries |-> <<>>] : k \in {"err", "hang"}}

NoDirectory == [kind |-> "none", entries |-> <<>>]

\* getQLStatsServers' loop: s.IP = strings.Split(s.Server, ":")[0]
getQLStatsServers(q) == [k \in 1..Len(q) |-> [q[k] EXCEPT !.IP = SplitHost(q[k].Server)]]

\* Variant: a server with bots only counts as populated.
PopulatedCountingBots(s) == s.Pc > 0 \/ s.Sc > 0 \/ s.Bc > 0
\* if s.Pc > 0 || s.Sc > 0
Populated(s) == s.Pc > 0 \/ s.Sc > 0

RECURSIVE RangeSrvs(_, _, _)
\* for _, s := range srvs { if ... { servers = append(servers, s.Server) } }
\* from entry k on, servers being what the loop has appended so far.
RangeSrvs(srvs, k, acc) ==
    IF k > Len(srvs) THEN acc
    ELSE RangeSrvs(srvs, k + 1,
                   IF Populated(srvs[k]) THEN Append(acc, srvs[k].Server) ELSE acc)

\* getPopulatedRankedServers, the directory fetch having succeeded.
getPopulatedRankedServers(d) == RangeSrvs(getQLStatsServers(d.entries), 1, <<>>)

\* ------------------------------------------------------- the query string
\* The strings between the commas of the "servers" value: an IPv4 literal
\* with a port, a host name with a port, an address without port, and the
\* empty string.
Literals == {[host |-> "h1", port |-> "27960"]}
Named == [host |-> "localhost", port |-> "27960"]
NoPort == [host |-> "h1", port |-> ""]
Empty == [host |-> "", port |-> ""]
Supplied == Literals \cup {Named, NoPort, Empty}

\* strings.Split never returns an empty slice.
Queries ==
    {[present |-> TRUE, vals |-> v] : v \in SeqsUpTo(Supplied, MaxServers) \ {<<>>}}
        \cup {[present |-> FALSE, vals |-> <<>>]}

NoQuery == [present |-> FALSE, vals |-> <<>>]

\* getQueryStringVals(r.URL.Query(), "servers"): nil when the key is missing
\* or the first string is empty.
getQueryStringVals(q) ==
    IF ~q.present THEN [isNil |-> TRUE, elems |-> <<>>]
    ELSE IF q.vals[1] = Empty THEN [isNil |-> TRUE, elems |-> <<>>]
    ELSE [isNil |-> FALSE, elems |-> q.vals]

\* net.ResolveTCPAddr("tcp4", addr): the address needs a port, and its host
\* is an IPv4 literal or a name that resolves.
ResolveTCPAddr(addr) ==
    IF addr.port = "" THEN [err |-> TRUE, IP |-> "", Port |-> 0]
    ELSE IF addr.host \in Hosts THEN [err |-> FALSE, IP |-> addr.host, Port |-> 27960]
    ELSE IF addr.host = "localhost" THEN [err |-> FALSE, IP |-> "127.0.0.1", Port |-> 27960]
    ELSE [err |-> TRUE, IP |-> "", Port |-> 0]

\* fmt.Sprintf("%s:%d", host.IP, host.Port)
Sprintf(host) == [host |-> host.IP, port |-> IF host.Port = 27960 THEN "27960" ELSE "0"]

RECURSIVE RangeAddresses(_, _, _)
\* for _, addr := range addresses { ...; if err != nil { continue }; append }
RangeAddresses(addresses, k, acc) ==
    IF k > Len(addresses) THEN acc
    ELSE LET host == ResolveTCPAddr(addresses[k])
         IN  RangeAddresses(addresses, k + 1,
                            IF host.err THEN acc ELSE Append(acc, Sprintf(host)))

\* -------------------------------------------------------------------- Init
\* The server after registerHandlers, before the first request.  The
\* address sequence the client will ask for and the state of the upstream
\* service are fixed here and are the same for every request.
Init ==
    /\ front = "none"
    /\ directory = NoDirectory
    /\ query = NoQuery
    /\ servers \in Requested
    /\ upstream \in [1..Len(servers) -> Outcomes]
    /\ run = 0
    /\ handler = 0
    /\ hpc = "idle"
    /\ i = 0
    /\ upc = [u \in 1..Len(servers) |-> "idle"]
    /\ idx = [u \in 1..Len(servers) |-> 0]
    /\ tmp = [u \in 1..Len(servers) |-> 0]
    /\ rankingResponse = ZeroResponse
    /\ successCount = 0
    /\ wg = 0
    /\ mut = 0
    /\ players = NoResult
    /\ timedOut = FALSE
    /\ twBuf = NoBody
    /\ response = <<>>
    /\ pendingAtDeadline = FALSE
    /\ results = <<>>

\* ------------------------------------------------------- the request layer
\* Variant: the handler is served without a timeout layer.
timeoutHandlerNone(h) == h
\* timeoutHandler(h): one more http.TimeoutHandler layer around h.
timeoutHandler(h) == h + 1

\* The locals of a fresh engine call and a fresh timeout writer.  The
\* goroutines of an earlier request that are still running work on the
\* locals of that earlier call and are no longer followed.
FreshCall ==
    /\ i' = 0
    /\ upc' = [u \in Units |-> "idle"]
    /\ idx' = [u \in Units |-> 0]
    /\ tmp' = [u \in Units |-> 0]
    /\ rankingResponse' = ZeroResponse
    /\ successCount' = 0
    /\ wg' = 0
    /\ mut' = 0
    /\ players' = NoResult
    /\ timedOut' = FALSE
    /\ twBuf' = NoBody
    /\ pendingAtDeadline' = FALSE

\* The function wrapHandlerFunc registers, run for a request with method m
\* and path p.  It answers 405 or 404 itself, or wraps the handler in one
\* more timeout layer and serves the request through it: the timeout layer
\* starts its timer and runs the handler in a goroutine of its own.
ServeHTTP(m, p) ==
    /\ run = 0 \/ response # <<>>
    /\ run' = run + 1
    /\ FreshCall
    /\ IF m # method
       THEN /\ response' = <<ErrorBody(405)>>
            /\ hpc' = "idle"
            /\ UNCHANGED handler
       ELSE IF p # path
       THEN /\ response' = <<ErrorBody(404)>>
            /\ hpc' = "idle"
            /\ UNCHANGED handler
       ELSE /\ handler' = timeoutHandler(handler)
            /\ hpc' = IF front = "none" THEN "call" ELSE "handler"
            /\ response' = <<>>
    /\ UNCHANGED <<input, servers, upstream, results>>

\* A unit of work is pending from the moment the engine is called until it
\* has returned.
Pending(u) == upc[u] \notin {"done", "failed"}

\* The deadline of a timeout layer elapses before the layer has answered:
\* the layer marks its writer timed out and answers with the timeout body.
\* Every layer answers with the same body, and an inner layer's answer is
\* passed on unchanged by the layers around it.
Timeout ==
    /\ hpc # "idle"
    /\ handler >= 1
    /\ response = <<>>
    /\ timedOut' = TRUE
    /\ response' = <<TimeoutBody>>
    /\ pendingAtDeadline' = (\E u \in Units : Pending(u))
    /\ UNCHANGED <<input, servers, upstream, run, handler, hpc, i, upc, idx, tmp,
                   rankingResponse, successCount, wg, mut, players, twBuf, results>>

\* The handler returned before the deadline: the timeout layer copies what
\* the handler wrote to the client.
ServeDone ==
    /\ hpc = "done"
    /\ handler >= 1
    /\ response = <<>>
    /\ response' = <<twBuf>>
    /\ UNCHANGED <<input, servers, upstream, run, handler, hpc, i, upc, idx, tmp,
                   rankingResponse, successCount, wg, mut, players, timedOut,
                   twBuf, pendingAtDeadline, results>>

\* The handler has computed the sequence s and goes on to call the engine
\* with it: one unit of work can be started per element.
Dispatch(s) ==
    /\ servers' = s
    /\ upstream' \in [1..Len(s) -> FrontOutcomes]
    /\ upc' = [u \in 1..Len(s) |-> "idle"]
    /\ idx' = [u \in 1..Len(s) |-> 0]
    /\ tmp' = [u \in 1..Len(s) |-> 0]
    /\ hpc' = "call"
    /\ UNCHANGED twBuf

\* writeResponseError(code, w, r); return.  The timeout writer refuses the
\* write once the deadline has passed.
Refuse(code) ==
    /\ twBuf' = IF timedOut THEN twBuf ELSE ErrorBody(code)
    /\ hpc' = "done"
    /\ UNCHANGED <<servers, upstream, upc, idx, tmp>>

\* Variant: the error of the directory fetch is not looked at.
DirectoryErrorIgnored ==
    /\ hpc = "handler"
    /\ front = "allRankingsHandler"
    /\ directory.kind # "hang"
    /\ Dispatch(getPopulatedRankedServers(directory))
    /\ UNCHANGED <<input, run, handler, i, rankingResponse, successCount, wg, mut,
                   players, timedOut, response, pendingAtDeadline, results>>

\* allRankingsHandler up to the engine call: getPopulatedRankedServers
\* returns the populated servers, or the handler answers 500.
AllRankingsFront ==
    /\ hpc = "handler"
    /\ front = "allRankingsHandler"
    /\ directory.kind # "hang"
    /\ IF directory.kind = "err"
       THEN Refuse(500)
       ELSE Dispatch(getPopulatedRankedServers(directory))
    /\ UNCHANGED <<input, run, handler, i, rankingResponse, successCount, wg, mut,
                   players, timedOut, response, pendingAtDeadline, results>>

\* rankingsHandler up to the engine call: the addresses that resolve, or 404
\* when the query names none.
RankingsFront ==
    /\ hpc = "handler"
    /\ front = "rankingsHandler"
    /\ LET addresses == getQueryStringVals(query)
           parsedaddresses == RangeAddresses(addresses.elems, 1, <<>>)
       IN  IF addresses.isNil THEN Refuse(404)
           ELSE IF Len(parsedaddresses) = 0 THEN Refuse(404)
           ELSE Dispatch(parsedaddresses)
    /\ UNCHANGED <<input, run, handler, i, rankingResponse, successCount, wg, mut,
                   players, timedOut, response, pendingAtDeadline, results>>

\* -------------------------------------------------- getQLStatsPlayerRankings
\* The handler calls the engine, which declares its locals.
CallEngine ==
    /\ hpc = "call"
    /\ rankingResponse' = [ZeroResponse EXCEPT !.RankedPlayers = MakeSlice]
    /\ successCount' = 0
    /\ wg' = 0
    /\ mut' = 0
    /\ i' = 0
    /\ hpc' = IF Len(servers) = 0 THEN "wait" ELSE "spawn"
    /\ UNCHANGED <<input, servers, upstream, run, handler, upc, idx, tmp, players,
                   timedOut, twBuf, response, pendingAtDeadline, results>>

\* Variant: the go statement without wg.Add(1).
SpawnNoAdd ==
    /\ hpc = "spawn"
    /\ i < Len(servers)
    /\ upc' = [upc EXCEPT ![i + 1] = "get"]
    /\ i' = i + 1
    /\ hpc' = IF i + 1 = Len(servers) THEN "wait" ELSE "spawn"
    /\ UNCHANGED <<input, servers, upstream, run, handler, idx, tmp, rankingResponse,
                   successCount, wg, mut, players, timedOut, twBuf, response,
                   pendingAtDeadline, results>>

\* One iteration of `for _, s := range servers`: wg.Add(1) and the go
\* statement, which starts the unit of work of servers[i + 1].
Spawn ==
    /\ hpc = "spawn"
    /\ i < Len(servers)
    /\ wg' = wg + 1
    /\ upc' = [upc EXCEPT ![i + 1] = "get"]
    /\ i' = i + 1
    /\ hpc' = IF i + 1 = Len(servers) THEN "wait" ELSE "spawn"
    /\ UNCHANGED <<input, servers, upstream, run, handler, idx, tmp, rankingResponse,
                   successCount, mut, players, timedOut, twBuf, response,
                   pendingAtDeadline, results>>

\* Variant: a wait that never blocks.
WaitNoBarrier(n) == TRUE
\* Whether wg.Wait() returns, the counter being n.
WaitReleased(n) == n = 0

\* wg.Wait()
Wait ==
    /\ hpc = "wait"
    /\ WaitReleased(wg)
    /\ hpc' = "l191"
    /\ UNCHANGED <<input, servers, upstream, run, handler, i, upc, idx, tmp,
                   rankingResponse, successCount, wg, mut, players, timedOut,
                   twBuf, response, pendingAtDeadline, results>>

\* rankingResponse.RankedServerCount = successCount
SetRankedServerCount ==
    /\ hpc = "l191"
    /\ rankingResponse' = [rankingResponse EXCEPT !.RankedServerCount = successCount]
    /\ hpc' = "l192"
    /\ UNCHANGED <<input, servers, upstream, run, handler, i, upc, idx, tmp,
                   successCount, wg, mut, players, timedOut, twBuf, response,
                   pendingAtDeadline, results>>

\* rankingResponse.RankedPlayerCount = len(rankingResponse.RankedPlayers)
SetRankedPlayerCount ==
    /\ hpc = "l192"
    /\ rankingResponse' =
           [rankingResponse EXCEPT !.RankedPlayerCount = len(rankingResponse.RankedPlayers)]
    /\ hpc' = "l193"
    /\ UNCHANGED <<input, servers, upstream, run, handler, i, upc, idx, tmp,
                   successCount, wg, mut, players, timedOut, twBuf, response,
                   pendingAtDeadline, results>>

\* return rankingResponse, nil: the handler's `players` is a copy of the
\* struct, so its slice has the length the collection has at this moment.
Return ==
    /\ hpc = "l193"
    /\ players' = rankingResponse
    /\ results' = Append(results, [RankedServerCount |-> rankingResponse.RankedServerCount,
                                   RankedPlayerCount |-> rankingResponse.RankedPlayerCount])
    /\ hpc' = "encode"
    /\ UNCHANGED <<input, servers, upstream, run, handler, i, upc, idx, tmp,
                   rankingResponse, successCount, wg, mut, timedOut, twBuf,
                   response, pendingAtDeadline>>

\* ------------------------------------------------------ one unit of work
\* Variant: the counter is advanced before the error is looked at.
GetCountsFailure(u) ==
    /\ upc[u] = "get"
    /\ upstream[u].kind # "hang"
    /\ upc' = [upc EXCEPT ![u] = IF upstream[u].kind = "connerr" THEN "failed" ELSE "decode"]
    /\ successCount' = IF upstream[u].kind = "connerr" THEN successCount + 1 ELSE successCount
    /\ UNCHANGED <<input, servers, upstream, run, handler, hpc, i, idx, tmp,
                   rankingResponse, wg, mut, players, timedOut,
                   twBuf, response, pendingAtDeadline, results>>

\* http.Get: a connection error ends the unit (the function returns after
\* logging); a fetch that never answers leaves the unit here for ever.
Get(u) ==
    /\ upc[u] = "get"
    /\ upstream[u].kind # "hang"
    /\ upc' = [upc EXCEPT ![u] = IF upstream[u].kind = "connerr" THEN "failed" ELSE "decode"]
    /\ UNCHANGED <<input, servers, upstream, run, handler, hpc, i, idx, tmp,
                   rankingResponse, successCount, wg, mut, players, timedOut,
                   twBuf, response, pendingAtDeadline, results>>

\* Variant: an empty player list ends the unit without the increment.
DecodeSkipEmpty(u) ==
    /\ upc[u] = "decode"
    /\ IF upstream[u].kind = "decerr"
       THEN /\ upc' = [upc EXCEPT ![u] = "failed"]
            /\ UNCHANGED idx
       ELSE /\ idx' = [idx EXCEPT ![u] = IF Len(Players(u)) = 0 THEN 0 ELSE 1]
            /\ upc' = [upc EXCEPT ![u] = IF Len(Players(u)) = 0 THEN "wgDone" ELSE "lock"]
    /\ UNCHANGED <<input, servers, upstream, run, handler, hpc, i, tmp,
                   rankingResponse, successCount, wg, mut, players, timedOut,
                   twBuf, response, pendingAtDeadline, results>>

\* dec.Decode(&qp): a decode error ends the unit (the function returns after
\* logging); otherwise the loop over qp.Players starts.
Decode(u) ==
    /\ upc[u] = "decode"
    /\ IF upstream[u].kind = "decerr"
       THEN /\ upc' = [upc EXCEPT ![u] = "failed"]
            /\ UNCHANGED idx
       ELSE /\ idx' = [idx EXCEPT ![u] = IF Len(Players(u)) = 0 THEN 0 ELSE 1]
            /\ upc' = [upc EXCEPT ![u] = IF Len(Players(u)) = 0 THEN "incRead" ELSE "lock"]
    /\ UNCHANGED <<input, servers, upstream, run, handler, hpc, i, tmp,
                   rankingResponse, successCount, wg, mut, players, timedOut,
                   twBuf, response, pendingAtDeadline, results>>

\* mut.Lock()
Lock(u) ==
    /\ upc[u] = "lock"
    /\ mut = 0
    /\ mut' = u
    /\ upc' = [upc EXCEPT ![u] = "append"]
    /\ UNCHANGED <<input, servers, upstream, run, handler, hpc, i, idx, tmp,
                   rankingResponse, successCount, wg, players, timedOut,
                   twBuf, response, pendingAtDeadline, results>>

\* Variant: the closure reads the loop variable s instead of its parameter.
TaggedLoopVar(p, addr) == [p EXCEPT !.Server = servers[i], !.IP = SplitHost(servers[i])]

\* p with the two fields the bridge adds.
Tagged(p, addr) == [p EXCEPT !.Server = addr, !.IP = SplitHost(addr)]

\* p.Server = addr; p.IP = ...; append; mut.Unlock(); and the loop's step to
\* the next player (the index is 0 again once the loop is left).
AppendUnlock(u) ==
    /\ upc[u] = "append"
    /\ rankingResponse' =
           [rankingResponse EXCEPT !.RankedPlayers = append(@, Tagged(Players(u)[idx[u]], servers[u]))]
    /\ mut' = 0
    /\ idx' = [idx EXCEPT ![u] = IF @ + 1 > Len(Players(u)) THEN 0 ELSE @ + 1]
    /\ upc' = [upc EXCEPT ![u] = IF idx[u] + 1 > Len(Players(u)) THEN "incRead" ELSE "lock"]
    /\ UNCHANGED <<input, servers, upstream, run, handler, hpc, i, tmp, successCount,
                   wg, players, timedOut, twBuf, response, pendingAtDeadline, results>>

\* successCount++, the load
IncRead(u) ==
    /\ upc[u] = "incRead"
    /\ tmp' = [tmp EXCEPT ![u] = successCount]
    /\ upc' = [upc EXCEPT ![u] = "incWrite"]
    /\ UNCHANGED <<input, servers, upstream, run, handler, hpc, i, idx,
                   rankingResponse, successCount, wg, mut, players, timedOut,
                   twBuf, response, pendingAtDeadline, results>>

\* Variant: the counter is advanced by the players as well.
IncWritePerPlayer(u) ==
    /\ upc[u] = "incWrite"
    /\ successCount' = tmp[u] + 1 + Len(Players(u))
    /\ tmp' = [tmp EXCEPT ![u] = 0]
    /\ upc' = [upc EXCEPT ![u] = "wgDone"]
    /\ UNCHANGED <<input, servers, upstream, run, handler, hpc, i, idx,
                   rankingResponse, wg, mut, players, timedOut, twBuf,
                   response, pendingAtDeadline, results>>

\* successCount++, the store (the loaded value is not used again)
IncWrite(u) ==
    /\ upc[u] = "incWrite"
    /\ successCount' = tmp[u] + 1
    /\ tmp' = [tmp EXCEPT ![u] = 0]
    /\ upc' = [upc EXCEPT ![u] = "wgDone"]
    /\ UNCHANGED <<input, servers, upstream, run, handler, hpc, i, idx,
                   rankingResponse, wg, mut, players, timedOut, twBuf,
                   response, pendingAtDeadline, results>>

\* wg.Done()
WgDone(u) ==
    /\ upc[u] = "wgDone"
    /\ wg' = wg - 1
    /\ upc' = [upc EXCEPT ![u] = "done"]
    /\ UNCHANGED <<input, servers, upstream, run, handler, hpc, i, idx, tmp,
                   rankingResponse, successCount, mut, players, timedOut,
                   twBuf, response, pendingAtDeadline, results>>

\* ------------------------------------------------------------ the handler
\* Variant: the handler writes to the connection, past the timeout writer.
HandlerEncodeRaw ==
    /\ hpc = "encode"
    /\ response' = Append(response, Encode(players))
    /\ hpc' = "done"
    /\ UNCHANGED <<input, servers, upstream, run, handler, i, upc, idx, tmp,
                   rankingResponse, successCount, wg, mut, players, timedOut,
                   twBuf, pendingAtDeadline, results>>

\* The engine's error is always nil, so the handler encodes the result to
\* its writer w.  Under a timeout layer w is the layer's writer: it keeps
\* the body for the layer to copy, and refuses it once the layer has timed
\* out (the handler then tries writeResponseError, refused the same way).
\* With no layer w is the connection.
HandlerEncode ==
    /\ hpc = "encode"
    /\ IF handler = 0
       THEN /\ response' = Append(response, Encode(players))
            /\ UNCHANGED twBuf
       ELSE /\ twBuf' = IF timedOut THEN twBuf ELSE Encode(players)
            /\ UNCHANGED response
    /\ hpc' = "done"
    /\ UNCHANGED <<input, servers, upstream, run, handler, i, upc, idx, tmp,
                   rankingResponse, successCount, wg, mut, players, timedOut,
                   pendingAtDeadline, results>>

\* -------------------------------------------------------------------- Next
\* The request goroutine: the handler and the engine it calls.
Handler ==
    \/ CallEngine
    \/ Spawn
    \/ Wait
    \/ SetRankedServerCount
    \/ SetRankedPlayerCount
    \/ Return
    \/ HandlerEncode

\* The goroutine of unit u.
Unit(u) ==
    \/ Get(u)
    \/ Decode(u)
    \/ Lock(u)
    \/ AppendUnlock(u)
    \/ IncRead(u)
    \/ IncWrite(u)
    \/ WgDone(u)

Serving ==
    \/ Timeout
    \/ ServeDone
    \/ CallEngine
    \/ Spawn
    \/ Wait
    \/ SetRankedServerCount
    \/ SetRankedPlayerCount
    \/ Return
    \/ HandlerEncode
    \/ \E u \in Units : Get(u)
    \/ \E u \in Units : Decode(u)
    \/ \E u \in Units : Lock(u)
    \/ \E u \in Units : AppendUnlock(u)
    \/ \E u \in Units : IncRead(u)
    \/ \E u \in Units : IncWrite(u)
    \/ \E u \in Units : WgDone(u)

\* Requests served one after the other.
Next ==
    \/ \E m \in Methods, p \in Paths : run < MaxRuns /\ ServeHTTP(m, p)
    \/ Serving

Spec == Init /\ [][Next]_vars

\* The first request only.
NextFirst ==
    \/ \E m \in Methods, p \in Paths : run = 0 /\ ServeHTTP(m, p)
    \/ Serving

SpecFirst == Init /\ [][NextFirst]_vars

\* The Go scheduler runs every goroutine that can take a step, and a timer
\* that was started fires.  Nothing obliges a client to send a request.
Fairness ==
    /\ WF_vars(Handler)
    /\ \A u \in 1..MaxServers : WF_vars(u \in Units /\ Unit(u))
    /\ WF_vars(Timeout)
    /\ WF_vars(ServeDone)

FairSpecFirst == SpecFirst /\ Fairness

\* The server before the first request to /allrankings.
InitAll ==
    /\ front = "allRankingsHandler"
    /\ directory \in Directories
    /\ query = NoQuery
    /\ servers = <<>>
    /\ upstream = <<>>
    /\ run = 0
    /\ handler = 0
    /\ hpc = "idle"
    /\ i = 0
    /\ upc = <<>>
    /\ idx = <<>>
    /\ tmp = <<>>
    /\ rankingResponse = ZeroResponse
    /\ successCount = 0
    /\ wg = 0
    /\ mut = 0
    /\ players = NoResult
    /\ timedOut = FALSE
    /\ twBuf = NoBody
    /\ response = <<>>
    /\ pendingAtDeadline = FALSE
    /\ results = <<>>

\* One request to the server, followed through allRankingsHandler.
NextAll ==
    \/ \E m \in Methods, p \in Paths : run = 0 /\ ServeHTTP(m, p)
    \/ AllRankingsFront
    \/ Serving

SpecAll == InitAll /\ [][NextAll]_vars

\* The server before the first request to /rankings.
InitRankings ==
    /\ front = "rankingsHandler"
    /\ directory = NoDirectory
    /\ query \in Queries
    /\ servers = <<>>
    /\ upstream = <<>>
    /\ run = 0
    /\ handler = 0
    /\ hpc = "idle"
    /\ i = 0
    /\ upc = <<>>
    /\ idx = <<>>
    /\ tmp = <<>>
    /\ rankingResponse = ZeroResponse
    /\ successCount = 0
    /\ wg = 0
    /\ mut = 0
    /\ players = NoResult
    /\ timedOut = FALSE
    /\ twBuf = NoBody
    /\ response = <<>>
    /\ pendingAtDeadline = FALSE
    /\ results = <<>>

\* One request to the server, followed through rankingsHandler.
NextRankings ==
    \/ \E m \in Methods, p \in Paths : run = 0 /\ ServeHTTP(m, p)
    \/ RankingsFront
    \/ Serving

SpecRankings == InitRankings /\ [][NextRankings]_vars

\* ------------------------------------------------------------- properties
\* The engine has returned its result to the handler.
Returned == players # NoResult

Succeeding == {u \in Units : upstream[u].kind = "ok"}
Failing == {u \in Units : upstream[u].kind \in {"connerr", "decerr"}}
NoHang == \A u \in Units : upstream[u].kind # "hang"

RECURSIVE SumPlayers(_)
\* The number of players in the payloads of the units of S.
SumPlayers(S) ==
    IF S = {} THEN 0
    ELSE LET u == CHOOSE x \in S : TRUE
         IN  upstream[u].n + SumPlayers(S \ {u})

\* The unit whose payload holds the player p.
Source(p) == p.SteamID \div 10

\* C1: when every fetch succeeds, the returned result counts every server
\* and every player: rankedServerCount = N and rankedPlayerCount = the sum
\* of the payloads' lengths.
AllSucceedCounts ==
    (Returned /\ Succeeding = Units) =>
        /\ players.RankedServerCount = Len(servers)
        /\ players.RankedPlayerCount = SumPlayers(Units)

\* C2: when K >= 1 fetches fail and the others succeed, the call still
\* returns, with rankedServerCount = N - K and exactly the players of the
\* succeeding servers.
PartialFailureReturns ==
    (hpc = "call" /\ NoHang /\ Failing # {}) ~>
        (/\ Returned
         /\ players.RankedServerCount = Cardinality(Succeeding)
         /\ len(players.RankedPlayers) = SumPlayers(Succeeding)
         /\ \A k \in 1..len(players.RankedPlayers) :
                Source(players.RankedPlayers.elems[k]) \in Succeeding)

\* Unit u's fetch is over: it succeeded, or failed to connect or to decode.
FetchCompleted(u) == upc[u] \notin {"idle", "get", "decode"}

\* C3: once every unit the engine started has completed its fetch, the
\* wait on the wait group is released and the engine returns.
BarrierTerminates ==
    (hpc = "wait" /\ \A u \in Units : FetchCompleted(u)) ~> Returned

\* C4: at most one unit at a time is in the middle of changing the
\* collection or the counter, and a unit changes either only while it holds
\* the mutex.
MutualExclusion ==
    /\ Cardinality({u \in Units : upc[u] \in {"append", "incWrite"}}) <= 1
    /\ \A u \in Units : upc[u] \in {"append", "incWrite"} => mut = u

\* C5: the client receives at most one response; once the deadline has
\* fired the response is the timeout body and stays it, whatever the handler
\* writes afterwards; a result is received only if no unit is pending.
DeadlineSafety ==
    /\ Len(response) <= 1
    /\ timedOut => response = <<TimeoutBody>>
    /\ pendingAtDeadline => timedOut
    /\ \A k \in 1..Len(response) :
           response[k].kind = "result" =>
               /\ ~timedOut
               /\ \A u \in Units : ~Pending(u)
               /\ response[k] = Encode(players)

\* A result that was finished after a deadline that found units pending.
DeadlineSafetyWitness ==
    /\ pendingAtDeadline
    /\ hpc = "done"
    /\ Returned
    /\ response = <<TimeoutBody>>

\* C6: every request is answered, also when a fetch never completes.
BoundedResponse == (run = 1) ~> (Len(response) = 1)

\* A request answered while a fetch that never completes is in flight.
BoundedResponseWitness ==
    /\ Len(response) = 1
    /\ \E u \in Units : upstream[u].kind = "hang" /\ upc[u] = "get"

EmptyResult(r) ==
    /\ r.RankedServerCount = 0
    /\ r.RankedPlayerCount = 0
    /\ ~r.RankedPlayers.isNil
    /\ r.RankedPlayers.elems = <<>>

\* C7: with no address the engine starts no unit, is not held at the wait,
\* and returns zero counts and an empty, non-null player sequence, which is
\* what the client receives as [] and not as null.
EmptyInput ==
    Len(servers) = 0 =>
        /\ i = 0 /\ wg = 0
        /\ hpc = "wait" => ENABLED Wait
        /\ Returned => EmptyResult(players)
        /\ \A k \in 1..Len(response) :
               response[k].kind = "result" =>
                   /\ response[k].rankedServerCount = 0
                   /\ response[k].rankedPlayerCount = 0
                   /\ ~response[k].rankedPlayersNull
                   /\ response[k].rankedPlayers = <<>>

\* The client received the result of a call with no address.
EmptyInputWitness ==
    /\ Len(servers) = 0
    /\ Len(response) = 1
    /\ response[1].kind = "result"

\* Unit u's fetch and decode succeed with an empty player list.
EmptyPayload(u) == upstream[u].kind = "ok" /\ upstream[u].n = 0

\* C8: a unit whose payload is well-formed and empty is a success: it adds
\* one to the counter, nothing to the collection, and releases the barrier;
\* alone it yields rankedServerCount = 1 and rankedPlayerCount = 0.
EmptyPayloadCounts ==
    (Len(servers) = 1 /\ EmptyPayload(1)) =>
        /\ upc[1] = "done" =>
               /\ successCount = 1
               /\ wg = 0
               /\ rankingResponse.RankedPlayers.elems = <<>>
        /\ hpc = "l191" => upc[1] = "done"
        /\ Returned =>
               /\ players.RankedServerCount = 1
               /\ players.RankedPlayerCount = 0

\* The engine returned the result of a single server with an empty list.
EmptyPayloadWitness ==
    /\ Len(servers) = 1
    /\ EmptyPayload(1)
    /\ Returned

\* C9: every call of the engine on the same addresses with the same
\* upstream outcomes returns the same two counts.
SameCounts ==
    \A a, b \in DOMAIN results :
        /\ results[a].RankedServerCount = results[b].RankedServerCount
        /\ results[a].RankedPlayerCount = results[b].RankedPlayerCount

\* C10: the returned rankedPlayerCount is the length of the returned
\* rankedPlayers, and the collection does not grow once it was counted.
CountIsLength ==
    /\ Returned => players.RankedPlayerCount = len(players.RankedPlayers)
    /\ hpc \in {"l193", "encode", "done"} =>
           rankingResponse.RankedPlayerCount = len(rankingResponse.RankedPlayers)

\* A returned result with the players of two servers.
CountIsLengthWitness ==
    /\ Returned
    /\ Len(servers) >= 2
    /\ players.RankedPlayerCount >= 2

\* C11: the success counter stays between 0 and the number of requested
\* addresses in every state, and so does the returned rankedServerCount,
\* whatever the interleaving of the loads and stores of successCount++.
CounterInRange ==
    /\ successCount \in 0..Len(servers)
    /\ \A u \in Units : upc[u] = "incWrite" => tmp[u] + 1 \in 1..Len(servers)
    /\ rankingResponse.RankedServerCount \in 0..Len(servers)
    /\ Returned => players.RankedServerCount \in 0..Len(servers)

\* A call that returned after two increments interleaved: one was lost and
\* the count is still in range.
CounterInRangeWitness ==
    /\ Returned
    /\ Len(servers) = 2
    /\ Succeeding = Units
    /\ players.RankedServerCount = 1

\* The records of s that came from the payload of unit u, in the order of s.
OfUnit(s, u) == SelectSeq(s, LAMBDA p : Source(p) = u)

Collection == rankingResponse.RankedPlayers.elems

\* C13: a unit whose fetch fails has appended nothing, does not hold the
\* mutex, and its failing step changes neither the collection, the counter
\* nor the position of any sibling; a sibling that is done has appended all
\* its players, and every started sibling whose own fetch succeeds reaches
\* its end.
FailureIsLocal ==
    /\ [](\A u \in Units :
            upc[u] = "failed" => OfUnit(Collection, u) = <<>> /\ mut # u)
    /\ [](\A v \in Units :
            upc[v] = "done" => Len(OfUnit(Collection, v)) = upstream[v].n)
    /\ [][\A u \in Units :
            (upc[u] # "failed" /\ upc'[u] = "failed") =>
                /\ rankingResponse' = rankingResponse
                /\ successCount' = successCount
                /\ mut' = mut
                /\ \A v \in Units \ {u} : upc'[v] = upc[v] /\ idx'[v] = idx[v]]_vars
    /\ \A v \in 1..MaxServers :
           (IF v \in Units THEN upc[v] = "get" /\ upstream[v].kind = "ok" ELSE FALSE)
               ~> (IF v \in Units THEN upc[v] = "done" ELSE FALSE)

\* A unit has failed and a sibling has finished with its players appended.
FailureIsLocalWitness ==
    \E u, v \in Units :
        /\ upc[u] = "failed"
        /\ upc[v] = "done"
        /\ upstream[v].n >= 1
        /\ Len(OfUnit(Collection, v)) = upstream[v].n

\* C14: from the moment the wait is released the engine reads the counter
\* and the length, and returns, only with every unit it started finished:
\* no unit is running, the mutex is free and the wait group is at zero.
FullBarrier ==
    hpc \in {"l191", "l192", "l193", "encode", "done"} =>
        /\ i = Len(servers)
        /\ \A u \in Units : upc[u] = "done"
        /\ mut = 0
        /\ wg = 0

\* The engine reads the counter after two units finished.
FullBarrierWitness ==
    /\ hpc = "l191"
    /\ Len(servers) = 2
    /\ Len(Collection) >= 2

\* C15: the players of one unit are in the collection, and in the returned
\* result, in the order of that unit's payload.
WithinServerOrder ==
    \A u \in Units :
        /\ \A k \in 1..Len(OfUnit(Collection, u)) :
               OfUnit(Collection, u)[k].SteamID = Players(u)[k].SteamID
        /\ Returned =>
               \A k \in 1..Len(OfUnit(players.RankedPlayers.elems, u)) :
                   OfUnit(players.RankedPlayers.elems, u)[k].SteamID = Players(u)[k].SteamID

\* A returned result in which a player of another server stands between two
\* players of one server.
WithinServerOrderWitness ==
    /\ Returned
    /\ \E a, b, c \in 1..len(players.RankedPlayers) :
           /\ a < b /\ b < c
           /\ Source(players.RankedPlayers.elems[a]) = Source(players.RankedPlayers.elems[c])
           /\ Source(players.RankedPlayers.elems[a]) # Source(players.RankedPlayers.elems[b])

\* C16: every record of the collection carries the address given to the
\* unit that fetched it, and that unit's fetch and decode succeeded.
Attribution ==
    \A k \in 1..Len(Collection) :
        LET p == Collection[k]
            u == Source(p)
        IN  /\ u \in Units
            /\ p.Server = servers[u]
            /\ p.IP = servers[u].host
            /\ upstream[u].kind = "ok"
            /\ upc[u] \notin {"idle", "get", "decode", "failed"}

\* The collection holds records of two different addresses.
AttributionWitness ==
    \E a, b \in 1..Len(Collection) :
        /\ Collection[a].Server # Collection[b].Server
        /\ Source(Collection[a]) # Source(Collection[b])

\* C17: one unit is started per element of the input, and an address
\* listed twice whose two fetches succeed adds 2 to rankedServerCount and
\* its players twice.
FanOut ==
    /\ hpc \in {"wait", "l191", "l192", "l193", "encode", "done"} =>
           /\ i = Len(servers)
           /\ \A u \in Units : upc[u] # "idle"
    /\ (/\ Returned
        /\ Len(servers) = 2
        /\ servers[1] = servers[2]
        /\ Succeeding = Units) =>
           /\ players.RankedServerCount = 2
           /\ \A u \in Units :
                  Len(OfUnit(players.RankedPlayers.elems, u)) = upstream[u].n

\* C20: every request that reaches the handler is served under exactly one
\* timeout layer, however many requests were served before.
SingleDeadlineWrapper == hpc # "idle" => handler = 1

\* The handler is past its own part: the engine has been called.
EngineInvoked == hpc \in {"call", "spawn", "wait", "l191", "l192", "l193", "encode"} \/ Returned

\* The handler returned without calling the engine.
Refused == hpc = "done" /\ ~Returned

\* Nothing of an engine call is to be seen: no unit was started, nothing
\* was collected or counted, no result was written.
EngineUntouched ==
    /\ ~EngineInvoked
    /\ servers = <<>>
    /\ \A u \in DOMAIN upc : upc[u] = "idle"
    /\ i = 0 /\ wg = 0 /\ successCount = 0
    /\ rankingResponse = ZeroResponse
    /\ results = <<>>
    /\ twBuf.kind # "result"
    /\ \A k \in 1..Len(response) : response[k].kind # "result"

\* C12 as stated: when the directory fetch fails during an all-rankings
\* request, the caller receives the internal-error response, the engine is
\* not invoked and no ranking result is written.
DirectoryFailureAnswered500 ==
    (front = "allRankingsHandler" /\ directory.kind = "err") =>
        /\ EngineUntouched
        /\ (Refused /\ response # <<>>) => response = <<ErrorBody(500)>>

\* C12, amended: when the directory fetch fails during an all-rankings
\* request, the engine is not invoked, no ranking result is written, and
\* the caller receives the internal-error response, or the
\* deadline-exceeded response when the deadline elapsed before the
\* handler's answer was passed on.
DirectoryFailure ==
    (front = "allRankingsHandler" /\ directory.kind = "err") =>
        /\ EngineUntouched
        /\ Refused => twBuf \in {NoBody, ErrorBody(500)}
        /\ (Refused /\ response # <<>>) =>
               response = IF timedOut THEN <<TimeoutBody>> ELSE <<ErrorBody(500)>>

\* The directory fetch failed and the caller has the internal-error answer.
DirectoryFailureWitness ==
    /\ front = "allRankingsHandler"
    /\ directory.kind = "err"
    /\ Refused
    /\ response = <<ErrorBody(500)>>

\* The entries of the listing l with a nonzero player or spectator count.
Surviving(l) == SelectSeq(l, LAMBDA s : s.Pc # 0 \/ s.Sc # 0)

\* C18: once allRankingsHandler has the directory, the sequence it gives to
\* the engine is the addresses of the entries with a nonzero player or
\* spectator count, in directory order; one unit per such entry can start.
DirectoryFilter ==
    (front = "allRankingsHandler" /\ directory.kind = "ok" /\ hpc \notin {"idle", "handler"}) =>
        /\ EngineInvoked
        /\ Len(servers) = Len(Surviving(directory.entries))
        /\ \A k \in 1..Len(servers) : servers[k] = Surviving(directory.entries)[k].Server
        /\ DOMAIN upc = 1..Len(Surviving(directory.entries))
        /\ \A k \in 1..Len(Collection) :
               \E e \in 1..Len(directory.entries) :
                   /\ Collection[k].Server = directory.entries[e].Server
                   /\ directory.entries[e].Pc + directory.entries[e].Sc > 0

\* The engine runs for a listing whose first entry has bots only and whose
\* second entry has spectators only.
DirectoryFilterWitness ==
    /\ front = "allRankingsHandler"
    /\ directory.kind = "ok"
    /\ Len(directory.entries) = 2
    /\ directory.entries[1].Bc = 1 /\ directory.entries[1].Pc = 0 /\ directory.entries[1].Sc = 0
    /\ directory.entries[2].Sc = 1 /\ directory.entries[2].Pc = 0
    /\ hpc = "wait"
    /\ servers = <<directory.entries[2].Server>>

\* The supplied string a parses: it has a port, and its host is an IPv4
\* literal or a name that resolves.
Parses(a) == a.port # "" /\ a.host \in Hosts \cup {"localhost"}

\* The address a parsed string stands for.
Rendering(a) == [host |-> IF a.host = "localhost" THEN "127.0.0.1" ELSE a.host, port |-> a.port]

\* C19: the sequence rankingsHandler gives to the engine is, in caller
\* order, the supplied address strings that parse (each as the address it
\* stands for); a string that does not parse starts no unit; and the
\* request is refused with not-found, the engine not invoked, exactly when
\* no supplied string parses.
MalformedDropped ==
    (front = "rankingsHandler" /\ hpc \notin {"idle", "handler"}) =>
        LET parsing == SelectSeq(query.vals, Parses)
        IN  /\ EngineInvoked <=> Len(parsing) > 0
            /\ EngineInvoked =>
                   /\ Len(servers) = Len(parsing)
                   /\ \A k \in 1..Len(servers) : servers[k] = Rendering(parsing[k])
                   /\ DOMAIN upc = 1..Len(parsing)
            /\ Refused =>
                   /\ EngineUntouched
                   /\ twBuf \in {NoBody, ErrorBody(404)}

====
